---- MODULE Spec2Model ----
(***************************************************************************)
(* Model of static/js/main.js: the admin session held in localStorage,     *)
(* the DOMContentLoaded handler of the protected pages (checkAuth followed *)
(* by loadAttendance), the attendance fetch and its rendering, the client  *)
(* side row filter and the report download.                                *)
(*                                                                         *)
(* Every async function is split at its await on fetch(): the part before  *)
(* the await is one action, the continuation that runs when the browser    *)
(* delivers a response or a transport failure is another.  JavaScript runs *)
(* each of these parts to completion, so each part is atomic.              *)
(***************************************************************************)
EXTENDS Integers, Sequences, FiniteSets, TLC

----------------------------------------------------------------------------
(* Bounds of the model *)

MaxRecords == 2
MaxExports == 1
MaxLogins == 1

----------------------------------------------------------------------------
(* JavaScript values *)

\* localStorage.getItem of a missing key gives null
Absent == "<null>"
\* a property that is missing from an object
Undefined == "<undefined>"
\* a text field that is missing from an attendance record
NoText == <<"<undefined>">>

\* variant: an undefined value is not stored
JSString_skipsUndefined(v) == IF v = Undefined THEN Absent ELSE v

\* String(v) as applied by localStorage.setItem to its value
JSString(v) == IF v = Undefined THEN "undefined" ELSE v

\* !v for a value read from localStorage
Falsy(v) == v = Absent \/ v = ""

\* JSON.stringify of the admin field of a login response: an object, or
\* undefined when the field is missing
JSONstringify(v) ==
  CASE v = "object:Admin" -> "{\"name\":\"Admin\"}"
    [] OTHER -> Undefined

\* the access_token values a login response can carry
AccessTokens == {"T1", "T2", ""}

----------------------------------------------------------------------------
(* Pages *)

EntryPoint == "index.html"
Pages == {"index.html", "dashboard.html", "attendance.html"}

\* document.body.classList.contains(cls) on the given page
HasClass(p, cls) ==
  \/ p = "dashboard.html" /\ cls = "dashboard-page"
  \/ p = "attendance.html" /\ cls = "attendance-page"

----------------------------------------------------------------------------
(* Texts *)

Chars == {"a", "A", "b", "B"}

toLowerCaseChar(c) ==
  CASE c = "A" -> "a"
    [] c = "B" -> "b"
    [] OTHER -> c

toLowerCase(s) == [i \in 1..Len(s) |-> toLowerCaseChar(s[i])]

\* s.includes(q)
includes(s, q) ==
  \E i \in 0..(Len(s) - Len(q)) : SubSeq(s, i + 1, i + Len(q)) = q

Glyph == <<"-">>

MsgUnauthorized == "Unauthorized. Please log in again."
MsgLoadFailed == "Failed to load attendance data."
MsgUnreachable == "Server unreachable."
MsgNoData == "No attendance data found."
MsgPleaseLogin == "Please log in first."
MsgDownloadFailed == "Failed to download report."

----------------------------------------------------------------------------
(* Attendance records and response bodies *)

Rec(n, u, t, ts, st) ==
  [name |-> n, user |-> u, time |-> t, timestamp |-> ts, status |-> st]

RecA == Rec(<<"A">>, NoText, Undefined, Undefined, "present")
RecB == Rec(NoText, <<"a", "B">>, Undefined, "09:41", Undefined)
RecNone == Rec(<<>>, NoText, "", Undefined, "")

Records == {RecA, RecB, RecNone}

RECURSIVE SeqsUpTo(_, _)
SeqsUpTo(S, n) ==
  IF n = 0 THEN {<<>>}
  ELSE LET shorter == SeqsUpTo(S, n - 1)
       IN shorter \cup {Append(s, x) : s \in {t \in shorter : Len(t) = n - 1}, x \in S}

\* what response.json() makes of a body: an array of records, a JSON value
\* that is not an array (an object without length), or a rejection because
\* the body is not JSON
Body(json, data) == [json |-> json, data |-> data]

Bodies ==
  {Body("array", d) : d \in SeqsUpTo(Records, MaxRecords)}
    \cup {Body("object", <<>>), Body("invalid", <<>>)}

\* what fetch() settles with: a rejection (no response received) or a
\* response with a status and a body
NoResponse == [received |-> FALSE, status |-> 0, body |-> Body("invalid", <<>>)]
Response(st, b) == [received |-> TRUE, status |-> st, body |-> b]

Statuses == {200, 204, 401, 500}

AttendanceResponses ==
  {NoResponse}
    \cup {Response(200, b) : b \in Bodies}
    \cup {Response(st, Body("invalid", <<>>)) : st \in Statuses \ {200}}

\* variant: a ?? b, which keeps an empty string
OrString_keepsEmpty(a, b) == IF a = Undefined THEN b ELSE a

\* a || b on record fields
OrText(a, b) == IF a = NoText \/ a = <<>> THEN b ELSE a
OrString(a, b) == IF a = Undefined \/ a = "" THEN b ELSE a

----------------------------------------------------------------------------
(* Rendered rows *)

Row(cells) == [cells |-> cells, display |-> ""]

PlaceholderRow == Row(<<MsgNoData>>)

\* variant: the first cell shows the zero-based index
RecordRow_zeroBased(record, index) ==
  Row(<<index,
        OrText(OrText(record.name, record.user), Glyph),
        OrString(OrString(record.time, record.timestamp), "-"),
        OrString(record.status, "Present")>>)

\* the <tr> built for one record by the forEach callback of loadAttendance
RecordRow(record, index) ==
  Row(<<index + 1,
        OrText(OrText(record.name, record.user), Glyph),
        OrString(OrString(record.time, record.timestamp), "-"),
        OrString(record.status, "Present")>>)

\* the rows of the html string accumulated by data.forEach
RenderRows(data) == [i \in 1..Len(data) |-> RecordRow(data[i], i - 1)]

----------------------------------------------------------------------------
(* State *)

VARIABLES
  token,       \* localStorage item "token", Absent when the key is not stored
  admin,       \* localStorage item "admin", Absent when the key is not stored
  location,    \* window.location.href as last assigned or loaded
  page,        \* the document whose script is running
  nameText,    \* textContent of #admin-name
  table,       \* the rows of #attendance-table
  errorText,   \* textContent of #error-message
  loadReq,     \* the request of loadAttendance awaiting its response
  exportReqs,  \* the requests of downloadReport awaiting their responses
  loginReqs,   \* number of login requests awaiting their responses
  ev,          \* what the last step did (observable effects that leave no state)
  shown        \* the error texts loadAttendance has written for a transport
               \* failure and for a failure status, by kind of failure

vars == <<token, admin, location, page, nameText, table, errorText,
          loadReq, exportReqs, loginReqs, ev, shown>>

NoReq == [issued |-> FALSE, auth |-> <<>>]

\* variant: the header is built from an item that is not stored
Bearer_null(tok) == <<"Bearer", "null">>

\* the value of the Authorization header: `Bearer ${token}`
Bearer(tok) == <<"Bearer", tok>>

Request(tok) == [issued |-> TRUE, auth |-> Bearer(tok)]

Event(op) ==
  [op |-> op, resp |-> NoResponse, redirected |-> FALSE, nameWritten |-> FALSE,
   called |-> FALSE, sent |-> FALSE, alert |-> "", download |-> FALSE,
   thrown |-> <<>>, input |-> <<>>]

Init ==
  /\ token = Absent
  /\ admin = Absent
  /\ location = EntryPoint
  /\ page = EntryPoint
  /\ nameText = ""
  /\ table = <<>>
  /\ errorText = ""
  /\ loadReq = NoReq
  /\ exportReqs = <<>>
  /\ loginReqs = 0
  /\ ev = Event("init")
  /\ shown = {}

----------------------------------------------------------------------------
(* login(email, password) *)

\* lines 5-15: the request is built and sent, the function awaits fetch()
login ==
  /\ page = EntryPoint
  /\ loginReqs < MaxLogins
  /\ loginReqs' = loginReqs + 1
  /\ ev' = [Event("login") EXCEPT !.sent = TRUE]
  /\ UNCHANGED <<token, admin, location, page, nameText, table, errorText,
                 loadReq, exportReqs, shown>>

\* res.ok
ok(status) == status >= 200 /\ status <= 299

\* variant: the message always carries the status code
loginError_statusOnly(errText, status) ==
  <<"Login failed: ", ToString(status)>>

\* line 19: the message of the Error thrown on a non-success status,
\* "Login failed: " + (errText || res.status)
loginError(errText, status) ==
  <<"Login failed: ",
    IF errText = Absent \/ errText = "" THEN ToString(status) ELSE errText>>

\* the texts res.text() can give for an error response (Absent: it rejected)
ErrTexts == {Absent, "", "Incorrect email or password"}

\* lines 17-25: what login does with a response of the login endpoint
\* data is [json, access_token, admin]; json = "invalid" makes res.json() reject
loginStores(status, data) == ok(status) /\ data.json = "object"

LoginData ==
  {[json |-> "object", access_token |-> t, admin |-> "object:Admin"] :
     t \in AccessTokens}
    \cup {[json |-> "object", access_token |-> "T1", admin |-> Undefined],
          [json |-> "invalid", access_token |-> "", admin |-> Undefined]}

loginResume ==
  /\ loginReqs > 0
  /\ loginReqs' = loginReqs - 1
  /\ \/ \* fetch() rejected: login rejects with the transport error
        /\ ev' = [Event("loginResume") EXCEPT !.thrown = <<"TypeError">>]
        /\ UNCHANGED <<token, admin>>
     \/ \E status \in {401, 500}, errText \in ErrTexts :
          /\ ~ok(status)
          /\ ev' = [Event("loginResume") EXCEPT
                      !.resp = Response(status, Body("text", <<errText>>)),
                      !.thrown = loginError(errText, status)]
          /\ UNCHANGED <<token, admin>>
     \/ \E data \in LoginData :
          /\ ev' = [Event("loginResume") EXCEPT
                      !.resp = Response(200, Body(data.json,
                                          <<data.access_token, data.admin>>)),
                      !.thrown = IF loginStores(200, data) THEN <<>>
                                 ELSE <<"SyntaxError">>]
          /\ IF loginStores(200, data)
               THEN /\ token' = JSString(data.access_token)
                    /\ admin' = JSString(JSONstringify(data.admin))
               ELSE UNCHANGED <<token, admin>>
  /\ UNCHANGED <<location, page, nameText, table, errorText,
                 loadReq, exportReqs, shown>>

----------------------------------------------------------------------------
(* logout() *)

\* variant: logout forgets the token
logoutEffect_keepsToken ==
  /\ admin' = Absent
  /\ token' = token
  /\ location' = EntryPoint

\* variant: logout forgets the admin item
logoutEffect_keepsAdmin ==
  /\ admin' = admin
  /\ token' = Absent
  /\ location' = EntryPoint

\* lines 30-32
logoutEffect ==
  /\ admin' = Absent
  /\ token' = Absent
  /\ location' = EntryPoint

logout ==
  /\ page # EntryPoint
  /\ logoutEffect
  /\ ev' = [Event("logout") EXCEPT !.redirected = TRUE]
  /\ UNCHANGED <<page, nameText, table, errorText,
                 loadReq, exportReqs, loginReqs, shown>>

----------------------------------------------------------------------------
(* checkAuth() and the synchronous part of loadAttendance() *)

\* variant: the test of line 38 inverted
checkAuthRedirects_inverted(adm) == ~Falsy(adm)

\* line 38: if (!admin)
checkAuthRedirects(adm) == Falsy(adm)

\* line 43: nameElement.textContent = admin (null gives the empty text)
checkAuthName(adm) == IF adm = Absent THEN "" ELSE adm

\* lines 41-44: the element is written whenever it exists; the redirect of
\* line 39 does not return
checkAuthWritesName(hasName, redirected) == hasName

\* line 53: if (!token) { redirect; return }
loadAttendanceSends(tok) == ~Falsy(tok)

\* lines 138-139 and 142-143: loadAttendance() follows checkAuth()
\* unconditionally
handlerCallsLoad(redirected) == TRUE

\* lines 136-145, run when the browser has loaded page p; the new document
\* starts with an empty table and error region, and the requests of the
\* document it replaces are gone
DOMContentLoaded(p, hasName) ==
  LET protected == HasClass(p, "dashboard-page") \/ HasClass(p, "attendance-page")
      guard == protected /\ checkAuthRedirects(admin)
      written == protected /\ checkAuthWritesName(hasName, guard)
      called == protected /\ handlerCallsLoad(guard)
      sends == called /\ loadAttendanceSends(token)
  IN /\ page' = p
     /\ location' = IF guard \/ (called /\ ~sends) THEN EntryPoint ELSE p
     /\ nameText' = IF written THEN checkAuthName(admin) ELSE ""
     /\ table' = <<>>
     /\ errorText' = ""
     /\ loadReq' = IF sends THEN Request(token) ELSE NoReq
     /\ exportReqs' = <<>>
     /\ loginReqs' = 0
     /\ ev' = [Event("DOMContentLoaded") EXCEPT
                 !.redirected = guard, !.nameWritten = written,
                 !.called = called, !.sent = sends]
     /\ UNCHANGED <<token, admin, shown>>

----------------------------------------------------------------------------
(* loadAttendance() after its await *)

\* lines 58-90: the branch taken for what fetch() settled with.  A body that
\* response.json() rejects, and a parsed value without forEach, throw inside
\* the try block and end in the catch clause like a rejected fetch().
loadAttendanceBranch(r) ==
  CASE ~r.received -> "catch"
    [] r.received /\ r.status = 200 /\ r.body.json = "invalid" -> "catch"
    [] r.received /\ r.status = 200 /\ r.body.json = "object" -> "catch"
    [] r.received /\ r.status = 200 /\ r.body.json = "array"
         /\ Len(r.body.data) = 0 -> "empty"
    [] r.received /\ r.status = 200 /\ r.body.json = "array"
         /\ Len(r.body.data) > 0 -> "rows"
    [] r.received /\ r.status = 401 -> "unauthorized"
    [] OTHER -> "failed"

\* variant: the catch clause reuses the text of the else branch
loadAttendanceError_sameText(branch) ==
  CASE branch = "unauthorized" -> MsgUnauthorized
    [] branch = "failed" -> MsgLoadFailed
    [] branch = "catch" -> MsgLoadFailed
    [] OTHER -> Absent

\* variant: a failure status is not reported
loadAttendanceError_silentFailure(branch) ==
  CASE branch = "unauthorized" -> MsgUnauthorized
    [] branch = "catch" -> MsgUnreachable
    [] OTHER -> Absent

\* lines 82, 85, 89: the text written to #error-message in a branch
\* (Absent: the branch does not write it)
loadAttendanceError(branch) ==
  CASE branch = "unauthorized" -> MsgUnauthorized
    [] branch = "failed" -> MsgLoadFailed
    [] branch = "catch" -> MsgUnreachable
    [] OTHER -> Absent

\* variant: an empty array renders no row at all
loadAttendanceTable_noPlaceholder(branch, data, old) ==
  CASE branch = "empty" -> <<>>
    [] branch = "rows" -> RenderRows(data)
    [] OTHER -> old

\* variant: the rows are appended to those already in the table
loadAttendanceTable_appends(branch, data, old) ==
  CASE branch = "empty" -> old \o <<PlaceholderRow>>
    [] branch = "rows" -> old \o RenderRows(data)
    [] OTHER -> old

\* lines 66 and 80: the rows assigned to tableRoot.innerHTML in a branch
loadAttendanceTable(branch, data, old) ==
  CASE branch = "empty" -> <<PlaceholderRow>>
    [] branch = "rows" -> RenderRows(data)
    [] OTHER -> old

\* variant: every failure status logs out
loadAttendanceLogsOut_anyFailure(branch) == branch \in {"unauthorized", "failed"}

\* line 83: the branch that calls logout()
loadAttendanceLogsOut(branch) == branch = "unauthorized"

\* the kind of failure a settled fetch() stands for
FailureKind(r) ==
  CASE ~r.received -> "transport"
    [] r.status = 401 -> "unauthorized"
    [] ok(r.status) -> "success status"
    [] OTHER -> "failure status"

\* the kinds of failure whose texts are kept in shown
LoggedKinds == {"transport", "failure status"}

loadAttendanceResume(r) ==
  LET branch == loadAttendanceBranch(r)
      text == loadAttendanceError(branch)
  IN /\ loadReq.issued
     /\ loadReq' = NoReq
     /\ table' = loadAttendanceTable(branch, r.body.data, table)
     /\ errorText' = IF text = Absent THEN errorText ELSE text
     /\ shown' = IF text = Absent \/ FailureKind(r) \notin LoggedKinds THEN shown
                  ELSE shown \cup {<<FailureKind(r), text>>}
     /\ IF loadAttendanceLogsOut(branch)
          THEN logoutEffect
          ELSE UNCHANGED <<token, admin, location>>
     /\ ev' = [Event("loadAttendanceResume") EXCEPT
                 !.resp = r, !.redirected = loadAttendanceLogsOut(branch)]
     /\ UNCHANGED <<page, nameText, exportReqs, loginReqs>>

----------------------------------------------------------------------------
(* filterAttendance() *)

Queries == {<<>>, <<"a">>, <<"B">>}

\* line 99: row.cells[1]?.textContent.toLowerCase() || ""
rowName(row) == IF Len(row.cells) >= 2 THEN toLowerCase(row.cells[2]) ELSE <<>>

\* variant: the query is not lower-cased
filterRow_caseSensitive(row, input) ==
  [row EXCEPT !.display =
     IF includes(rowName(row), input) THEN "" ELSE "none"]

\* variant: the lower-cased text is written back into the identity cell
filterRow_lowercasesCell(row, input) ==
  [cells |-> IF Len(row.cells) >= 2
               THEN [row.cells EXCEPT ![2] = toLowerCase(row.cells[2])]
               ELSE row.cells,
   display |-> IF includes(rowName(row), toLowerCase(input)) THEN "" ELSE "none"]

\* variant: a matching row keeps the display it had
filterRow_neverShowsAgain(row, input) ==
  [row EXCEPT !.display =
     IF includes(rowName(row), toLowerCase(input)) THEN row.display ELSE "none"]

\* lines 95-101
filterRow(row, input) ==
  [row EXCEPT !.display =
     IF includes(rowName(row), toLowerCase(input)) THEN "" ELSE "none"]

filterAttendance(input) ==
  /\ page # EntryPoint
  /\ table' = [i \in 1..Len(table) |-> filterRow(table[i], input)]
  /\ ev' = [Event("filterAttendance") EXCEPT !.input = input]
  /\ UNCHANGED <<token, admin, location, page, nameText, errorText,
                 loadReq, exportReqs, loginReqs, shown>>

----------------------------------------------------------------------------
(* downloadReport() *)

\* variant: the guard of line 107 is missing
downloadReportSends_unguarded(tok) == TRUE

\* line 107: if (!token) { alert; return }
downloadReportSends(tok) == ~Falsy(tok)

\* lines 106-115
downloadReport ==
  /\ page # EntryPoint
  /\ Len(exportReqs) < MaxExports
  /\ IF downloadReportSends(token)
       THEN /\ exportReqs' = Append(exportReqs, Request(token))
            /\ ev' = [Event("downloadReport") EXCEPT !.sent = TRUE]
       ELSE /\ exportReqs' = exportReqs
            /\ ev' = [Event("downloadReport") EXCEPT !.alert = MsgPleaseLogin]
  /\ UNCHANGED <<token, admin, location, page, nameText, table, errorText,
                 loadReq, loginReqs, shown>>

\* lines 117-131: the branch taken for what fetch() settled with
downloadReportBranch(r) ==
  CASE ~r.received -> "catch"
    [] r.received /\ r.status = 200 -> "download"
    [] OTHER -> "failed"

\* variant: a failure status is not reported
downloadReportAlert_silentFailure(branch) ==
  CASE branch = "catch" -> MsgUnreachable
    [] OTHER -> ""

\* variant: the notice of line 127 is not in an else branch
downloadReportAlert_noElse(branch) ==
  CASE branch = "catch" -> MsgUnreachable
    [] OTHER -> MsgDownloadFailed

\* lines 127 and 130
downloadReportAlert(branch) ==
  CASE branch = "failed" -> MsgDownloadFailed
    [] branch = "catch" -> MsgUnreachable
    [] OTHER -> ""

\* no branch of downloadReport calls logout()
downloadReportLogsOut(branch) == FALSE

\* variant: the request stays queued, as if sent again after its response
RemoveAt_keeps(q, i) == q

\* the requests still awaited once the i-th has settled
RemoveAt(q, i) == SubSeq(q, 1, i - 1) \o SubSeq(q, i + 1, Len(q))

downloadReportResume(i, r) ==
  LET branch == downloadReportBranch(r)
  IN /\ i \in 1..Len(exportReqs)
     /\ exportReqs' = RemoveAt(exportReqs, i)
     /\ IF downloadReportLogsOut(branch)
          THEN logoutEffect
          ELSE UNCHANGED <<token, admin, location>>
     /\ ev' = [Event("downloadReportResume") EXCEPT
                 !.resp = r, !.alert = downloadReportAlert(branch),
                 !.download = (branch = "download"),
                 !.redirected = downloadReportLogsOut(branch)]
     /\ UNCHANGED <<page, nameText, table, errorText, loadReq, loginReqs, shown>>

----------------------------------------------------------------------------
(* Specification *)

ExportResponses ==
  {NoResponse} \cup {Response(st, Body("invalid", <<>>)) : st \in Statuses}

Next ==
  \/ login
  \/ loginResume
  \/ logout
  \/ \E p \in Pages, hasName \in BOOLEAN : DOMContentLoaded(p, hasName)
  \/ \E r \in AttendanceResponses : loadAttendanceResume(r)
  \/ \E q \in Queries : filterAttendance(q)
  \/ downloadReport
  \/ \E i \in 1..MaxExports, r \in ExportResponses : downloadReportResume(i, r)

Spec == Init /\ [][Next]_vars

\* the browser settles every fetch() of the running document: a
\* continuation that stays enabled is eventually run
FairSpec ==
  /\ Spec
  /\ WF_vars(\E r \in AttendanceResponses : loadAttendanceResume(r))
  /\ WF_vars(\E i \in 1..MaxExports, r \in ExportResponses :
               downloadReportResume(i, r))

----------------------------------------------------------------------------
(* Shorthands for the properties *)

Protected(p) == HasClass(p, "dashboard-page") \/ HasClass(p, "attendance-page")

\* the last step was the continuation of loadAttendance on a received
\* response with the given status
LoadAnswered(e, status) ==
  e.op = "loadAttendanceResume" /\ e.resp.received /\ e.resp.status = status

ExportAnswered(e, status) ==
  e.op = "downloadReportResume" /\ e.resp.received /\ e.resp.status = status

\* the last step was a login continuation that reached lines 23-24
LoginSucceeded(e) ==
  e.op = "loginResume" /\ e.resp.received /\ ok(e.resp.status) /\ Len(e.thrown) = 0

\* the step issues a request to the attendance endpoint
IssuesAttendanceRequest ==
  \/ ev'.op = "DOMContentLoaded" /\ (ev'.sent \/ loadReq'.issued)
  \/ ev'.op = "downloadReport" /\ (ev'.sent \/ Len(exportReqs') > Len(exportReqs))

----------------------------------------------------------------------------
(* Properties *)

\* C1: when loadAttendance has handled a 401 response, the token and the
\* admin identity are both absent from localStorage and the location is
\* index.html, whatever the state was before the response.
C1_Unauthorized401ClearsAndRedirects ==
  LoadAnswered(ev, 401) =>
    token = Absent /\ admin = Absent /\ location = EntryPoint

C1_Witness ==
  LoadAnswered(ev, 401) /\ Len(exportReqs) > 0 /\ nameText # ""

\* C2: no step issues a request to the attendance endpoint (loadAttendance
\* or downloadReport) while localStorage holds no token; downloadReport
\* called without a token sends nothing.
C2_NoRequestWithoutToken ==
  [][/\ IssuesAttendanceRequest => token # Absent
     /\ ev'.op = "downloadReport" /\ token = Absent =>
          ~ev'.sent /\ exportReqs' = exportReqs]_vars

C2_Witness ==
  ev.op = "downloadReport" /\ token = Absent /\ ~ev.sent

\* C3: a successful login leaves in localStorage exactly the token of the
\* response, and every attendance or export request carries, when it is
\* issued, Authorization: Bearer <the token then in localStorage>.
C3_RequestCarriesStoredToken ==
  /\ LoginSucceeded(ev) => token = ev.resp.body.data[1]
  /\ ev.op = "DOMContentLoaded" /\ ev.sent =>
       loadReq.auth = <<"Bearer", token>>
  /\ ev.op = "downloadReport" /\ ev.sent =>
       exportReqs[Len(exportReqs)].auth = <<"Bearer", token>>

C3_Witness ==
  ev.op = "downloadReport" /\ ev.sent /\ token = "T2" /\ loadReq.issued

\* C4: localStorage goes from empty to non-empty only in a successful
\* login and from non-empty to empty only in logout (called by the user or
\* by loadAttendance on a 401); every other step, a failed login included,
\* leaves both items as they are.
C4_StoreWrittenOnlyByLoginAndLogout ==
  [][/\ token = Absent /\ token' # Absent => LoginSucceeded(ev')
     /\ admin = Absent /\ admin' # Absent => LoginSucceeded(ev')
     /\ (token # Absent /\ token' = Absent) \/ (admin # Absent /\ admin' = Absent) =>
          ev'.op = "logout" \/ LoadAnswered(ev', 401)
     /\ ~(LoginSucceeded(ev') \/ ev'.op = "logout" \/ LoadAnswered(ev', 401)) =>
          token' = token /\ admin' = admin]_vars

C4_Witness ==
  ev.op = "loginResume" /\ ~LoginSucceeded(ev) /\ token # Absent

\* C5 (as claimed): after a 401 response to any authenticated fetch has
\* been handled, by loadAttendance or by downloadReport, localStorage holds
\* neither the token nor the admin identity.
C5_Any401LogsOut ==
  LoadAnswered(ev, 401) \/ ExportAnswered(ev, 401) =>
    token = Absent /\ admin = Absent

\* C6: the text loadAttendance writes for a transport failure is never the
\* text it writes for a response whose status is neither 2xx nor 401.
C6_TransportAndStatusTextsDiffer ==
  \A a \in shown, b \in shown :
    a[1] = "transport" /\ b[1] = "failure status" => a[2] # b[2]

C6_Witness ==
  /\ \E a \in shown : a[1] = "transport"
  /\ \E b \in shown : b[1] = "failure status"

\* C7 (as claimed): once loadAttendance has handled a response that was
\* received, whatever its status and body, the error region does not show
\* "Server unreachable."
C7_UnreachableOnlyOnTransportFailure ==
  ev.op = "loadAttendanceResume" /\ ev.resp.received =>
    errorText # MsgUnreachable

\* C8 (as claimed): when checkAuth has redirected on the load of a
\* protected page, loadAttendance is not called and #admin-name is not
\* written.
C8_NothingRunsAfterGuardRedirect ==
  ev.op = "DOMContentLoaded" /\ ev.redirected =>
    ~ev.called /\ ~ev.nameWritten

\* C9: on every load of a protected page, checkAuth redirects to index.html
\* exactly when localStorage holds no token.
C9_GuardRedirectsIffNoToken ==
  ev.op = "DOMContentLoaded" /\ Protected(page) =>
    /\ ev.redirected <=> token = Absent
    /\ ev.redirected => location = EntryPoint

C9_Witness ==
  ev.op = "DOMContentLoaded" /\ Protected(page) /\ ~ev.redirected
    /\ token = "T1" /\ shown # {}

\* C10: a 200 response with an empty array leaves exactly one row in the
\* table, the "No attendance data found." placeholder, and does not write
\* the error region.
C10_EmptySetRendersPlaceholder ==
  [][LoadAnswered(ev', 200) /\ ev'.resp.body.json = "array"
       /\ Len(ev'.resp.body.data) = 0 =>
         /\ Len(table') = 1
         /\ table'[1].cells = <<MsgNoData>>
         /\ errorText' = errorText]_vars

C10_Witness ==
  /\ LoadAnswered(ev, 200) /\ ev.resp.body.json = "array"
  /\ Len(ev.resp.body.data) = 0
  /\ Len(table) = 1

\* the last step rendered the non-empty array of a 200 response
Rendered(e) ==
  LoadAnswered(e, 200) /\ e.resp.body.json = "array" /\ Len(e.resp.body.data) > 0

\* C11: a 200 response with an array of n > 0 records leaves exactly n rows,
\* whatever the table held before; row i shows index i in its first cell and
\* is the row built from the i-th record, all rows displayed.
C11_OneRowPerRecordInOrder ==
  [][Rendered(ev') =>
       LET data == ev'.resp.body.data
       IN /\ Len(table') = Len(data)
          /\ \A i \in 1..Len(data) :
               /\ table'[i].cells[1] = i
               /\ Len(table'[i].cells) = 4
               /\ table'[i].cells[2] \in {data[i].name, data[i].user, Glyph}
               /\ table'[i].cells[3] \in {data[i].time, data[i].timestamp, "-"}
               /\ table'[i].cells[4] \in {data[i].status, "Present"}
               /\ table'[i].display = ""]_vars

C11_Witness ==
  Rendered(ev) /\ Len(table) = 2 /\ ev.resp.body.data[1] # ev.resp.body.data[2]

\* the cells the claim C12 gives for a record, reading "present" as "the
\* record has the field"
ClaimedIdentity(r) ==
  IF r.name # NoText THEN r.name ELSE IF r.user # NoText THEN r.user ELSE Glyph
ClaimedTime(r) ==
  IF r.time # Undefined THEN r.time
  ELSE IF r.timestamp # Undefined THEN r.timestamp ELSE "-"
ClaimedStatus(r) == IF r.status # Undefined THEN r.status ELSE "Present"

\* C12 (as claimed): every rendered row shows name if the record has one,
\* else user, else the glyph; time if it has one, else timestamp, else the
\* glyph; status if it has one, else "Present".
C12_CellsFallBackByPresence ==
  Rendered(ev) =>
    \A i \in 1..Len(ev.resp.body.data) :
      LET r == ev.resp.body.data[i]
      IN /\ table[i].cells[2] = ClaimedIdentity(r)
         /\ table[i].cells[3] = ClaimedTime(r)
         /\ table[i].cells[4] = ClaimedStatus(r)

\* a field counts when the record has it with a non-empty value
HasText(v) == v # NoText /\ v # <<>>
HasString(v) == v # Undefined /\ v # ""

\* C12 (amended): every rendered row shows name if the record has a
\* non-empty one, else user if non-empty, else the glyph; likewise time,
\* timestamp, glyph; status if non-empty, else "Present".  The records
\* [{name: A, status: present}, {user: B}] give two rows, the second with
\* the identity of its user field and status "Present".
C12_CellsFallBackByNonEmptyValue ==
  Rendered(ev) =>
    /\ \A i \in 1..Len(ev.resp.body.data) :
         LET r == ev.resp.body.data[i]
         IN /\ table[i].cells[2] =
                 (IF HasText(r.name) THEN r.name
                  ELSE IF HasText(r.user) THEN r.user ELSE Glyph)
            /\ table[i].cells[3] =
                 (IF HasString(r.time) THEN r.time
                  ELSE IF HasString(r.timestamp) THEN r.timestamp ELSE "-")
            /\ table[i].cells[4] =
                 (IF HasString(r.status) THEN r.status ELSE "Present")
    /\ ev.resp.body.data = <<RecA, RecB>> =>
         /\ Len(table) = 2
         /\ table[2].cells[2] = RecB.user
         /\ table[2].cells[4] = "Present"

C12_Witness ==
  Rendered(ev) /\ ev.resp.body.data = <<RecA, RecB>> /\ Len(table) = 2

\* C13: rendering is idempotent: in the state a render of R has left,
\* rendering R again gives the table that is already there.
C13_RenderIdempotent ==
  LoadAnswered(ev, 200) /\ ev.resp.body.json = "array" =>
    loadAttendanceTable(loadAttendanceBranch(ev.resp), ev.resp.body.data, table)
      = table

C13_Witness ==
  Rendered(ev) /\ Len(table) = 2 /\ ev.resp.body.data[1] = ev.resp.body.data[2]

\* C14: after filterAttendance has run with query q, a row is displayed
\* exactly when the lower-cased text of its second cell (the empty text
\* when it has no second cell) contains lower-cased q; with q empty every
\* row is displayed.
C14_FilterShowsExactlyMatches ==
  ev.op = "filterAttendance" =>
    \A i \in 1..Len(table) :
      LET text == IF Len(table[i].cells) >= 2 THEN table[i].cells[2] ELSE <<>>
          q == toLowerCase(ev.input)
          hit == \E k \in 0..(Len(text) - Len(q)) :
                   \A j \in 1..Len(q) : toLowerCaseChar(text[k + j]) = q[j]
      IN /\ (table[i].display = "") <=> hit
         /\ table[i].display \in {"", "none"}
         /\ Len(ev.input) = 0 => table[i].display = ""

C14_Witness ==
  /\ ev.op = "filterAttendance" /\ ev.input = <<"B">> /\ Len(table) = 2
  /\ table[1].display = "none" /\ table[2].display = ""
  /\ table[2].cells[2] = <<"a", "B">>

\* C15: filterAttendance sends nothing and leaves localStorage, the
\* location, the error region and the number, order and cells of the rows
\* as they are; only the display of rows changes.
C15_FilterIsLocal ==
  [][ev'.op = "filterAttendance" =>
       /\ ~ev'.sent
       /\ UNCHANGED <<token, admin, location, page, nameText, errorText,
                      loadReq, exportReqs, loginReqs>>
       /\ Len(table') = Len(table)
       /\ \A i \in 1..Len(table) : table'[i].cells = table[i].cells]_vars

C15_Witness ==
  /\ ev.op = "filterAttendance" /\ Len(table) = 2 /\ loadReq = NoReq
  /\ table[1].display # table[2].display /\ Len(exportReqs) > 0

\* the last step was the continuation of downloadReport on an export that
\* failed: no response, or a response whose status is not 200
ExportFailed(e) ==
  e.op = "downloadReportResume" /\ ~(e.resp.received /\ e.resp.status = 200)

\* C16 (as claimed): every failed export, by status or by transport error,
\* raises the one generic notice "Failed to download report." and triggers
\* no download.
C16_OneGenericNoticeForAnyFailure ==
  ExportFailed(ev) => ev.alert = MsgDownloadFailed /\ ~ev.download

\* C16 (amended): every failed export raises exactly one notice and
\* triggers no download; the notice is "Failed to download report." for a
\* response whose status is not 200 and "Server unreachable." when no
\* response was received.
C16_OneNoticePerKindOfFailure ==
  ExportFailed(ev) =>
    /\ ~ev.download
    /\ ev.alert # ""
    /\ ev.resp.received => ev.alert = MsgDownloadFailed
    /\ ~ev.resp.received => ev.alert = MsgUnreachable

C16_Witness ==
  ExportFailed(ev) /\ ~ev.resp.received /\ ev.alert = MsgUnreachable

\* C17: when the login endpoint answers with a non-success status, login
\* throws "Login failed: " followed by the server's text if there is one,
\* else by the status code, and leaves both localStorage items as they were.
C17_FailedLoginThrowsAndKeepsStore ==
  [][ev'.op = "loginResume" /\ ev'.resp.received /\ ~ok(ev'.resp.status) =>
       LET text == ev'.resp.body.data[1]
       IN /\ Len(ev'.thrown) = 2
          /\ ev'.thrown[1] = "Login failed: "
          /\ ev'.thrown[2] = (IF text \in {Absent, ""}
                                THEN ToString(ev'.resp.status) ELSE text)
          /\ token' = token
          /\ admin' = admin]_vars

C17_Witness ==
  /\ ev.op = "loginResume" /\ ev.resp.received /\ ev.resp.status = 401
  /\ ev.resp.body.data[1] = "Incorrect email or password"
  /\ token = "T1"

\* C18: logout, in any state, leaves token and admin absent and the
\* location at index.html, sends nothing and drops no request in flight;
\* a second logout right after the first changes nothing.
C18_LogoutUnconditionalAndLocal ==
  [][ev'.op = "logout" =>
       /\ token' = Absent /\ admin' = Absent /\ location' = EntryPoint
       /\ ~ev'.sent
       /\ UNCHANGED <<page, loadReq, exportReqs, loginReqs, table, errorText>>
       /\ ev.op = "logout" => UNCHANGED vars]_vars

C18_Witness ==
  ev.op = "logout" /\ loadReq.issued /\ Len(exportReqs) > 0 /\ token = Absent

\* C19: a step sends at most one request, and only a page load, an export
\* click or a login submission sends one; the continuation that handles a
\* response or a failure settles its own request and sends none, so the
\* requests sent never outnumber the triggers.
C19_OneRequestPerTriggerNoRetry ==
  [][/\ ev'.op = "DOMContentLoaded" =>
          Len(exportReqs') = 0 /\ loginReqs' = 0
     /\ ev'.op = "downloadReport" =>
          /\ Len(exportReqs') <= Len(exportReqs) + 1
          /\ loadReq' = loadReq /\ loginReqs' = loginReqs
     /\ ev'.op = "login" =>
          /\ loginReqs' <= loginReqs + 1
          /\ loadReq' = loadReq /\ exportReqs' = exportReqs
     /\ ev'.op = "loadAttendanceResume" =>
          ~loadReq'.issued /\ exportReqs' = exportReqs /\ loginReqs' = loginReqs
     /\ ev'.op = "downloadReportResume" =>
          /\ Len(exportReqs') = Len(exportReqs) - 1
          /\ loadReq' = loadReq /\ loginReqs' = loginReqs
     /\ ev'.op = "loginResume" =>
          /\ loginReqs' = loginReqs - 1
          /\ loadReq' = loadReq /\ exportReqs' = exportReqs
     /\ ev'.op \in {"logout", "filterAttendance"} =>
          UNCHANGED <<loadReq, exportReqs, loginReqs>>]_vars

C19_Witness ==
  /\ ev.op = "downloadReportResume" /\ ev.resp.received /\ ev.resp.status = 401
  /\ Len(exportReqs) = 0 /\ ~loadReq.issued

\* the last step ended in an error detected by loadAttendance or by
\* downloadReport
LoadFailed(e) ==
  e.op = "loadAttendanceResume"
    /\ ~(e.resp.received /\ e.resp.status = 200 /\ e.resp.body.json = "array")
ExportBlocked(e) == e.op = "downloadReport" /\ ~e.sent
LoginFailed(e) == e.op = "loginResume" /\ Len(e.thrown) > 0

\* the user-facing messages of the last step: its alert and, for
\* loadAttendance, the text it left in the error region
Messages(e) ==
  (IF e.alert # "" THEN 1 ELSE 0)
    + (IF e.op = "loadAttendanceResume" /\ errorText # "" THEN 1 ELSE 0)

\* C20 (as claimed): every error detected by login, loadAttendance or
\* downloadReport ends in exactly one user-facing message of that operation.
C20_EveryErrorNotified ==
  LoginFailed(ev) \/ LoadFailed(ev) \/ ExportFailed(ev) \/ ExportBlocked(ev) =>
    Messages(ev) = 1

\* C20 (amended): every error detected by loadAttendance or downloadReport
\* ends in exactly one user-facing message of that operation; a failed
\* login shows nothing itself and is thrown to the caller of login.
C20_ErrorsNotifiedExceptLoginThrows ==
  /\ LoadFailed(ev) \/ ExportFailed(ev) \/ ExportBlocked(ev) => Messages(ev) = 1
  /\ LoginFailed(ev) => Messages(ev) = 0 /\ Len(ev.thrown) > 0

C20_Witness ==
  LoadFailed(ev) /\ ev.resp.received /\ ev.resp.status = 500
    /\ errorText = MsgLoadFailed

\* C21: in every reachable state the token item is stored exactly when the
\* admin item is stored.
C21_TokenIffAdmin ==
  (token = Absent) <=> (admin = Absent)

C21_Witness ==
  token = "T1" /\ admin = "undefined" /\ ev.op = "loginResume"

\* the outcomes of loadAttendance and of downloadReport in a step
LoadOutcomes ==
  {o \in {"rendered", "unauthorized", "failed", "unreachable"} :
     \/ o = "rendered" /\ Len(table') > 0 /\ errorText' = errorText
     \/ o = "unauthorized" /\ errorText' = MsgUnauthorized /\ ev'.redirected
          /\ token' = Absent /\ admin' = Absent /\ location' = EntryPoint
     \/ o = "failed" /\ errorText' = MsgLoadFailed /\ ~ev'.redirected
     \/ o = "unreachable" /\ errorText' = MsgUnreachable /\ ~ev'.redirected}

ExportOutcomes ==
  {o \in {"download", "notice"} :
     \/ o = "download" /\ ev'.download
     \/ o = "notice" /\ ev'.alert # ""}

\* C22 (as claimed): no invocation is cancelled: a request leaves flight
\* only in the step of its own continuation, which ends in exactly one
\* outcome.
C22_NoInvocationCancelled ==
  [][/\ loadReq.issued /\ ~loadReq'.issued =>
          ev'.op = "loadAttendanceResume" /\ Cardinality(LoadOutcomes) = 1
     /\ Len(exportReqs') < Len(exportReqs) =>
          ev'.op = "downloadReportResume" /\ Cardinality(ExportOutcomes) = 1]_vars

\* a request leaves flight in its own continuation or when the document is
\* replaced, and a continuation ends in exactly one outcome
SettledOrReplaced ==
  /\ loadReq.issued /\ ~loadReq'.issued =>
       ev'.op \in {"loadAttendanceResume", "DOMContentLoaded"}
  /\ Len(exportReqs') < Len(exportReqs) =>
       ev'.op \in {"downloadReportResume", "DOMContentLoaded"}
  /\ ev'.op = "loadAttendanceResume" => Cardinality(LoadOutcomes) = 1
  /\ ev'.op = "downloadReportResume" => Cardinality(ExportOutcomes) = 1

\* C22 (amended): with the transport settling every request of the running
\* document, a request in flight is eventually settled or discarded; it
\* leaves flight only in its own continuation, which ends in exactly one
\* outcome, or when the browser replaces the document, which discards it
\* without outcome.
C22_SettledUnlessDocumentReplaced ==
  /\ [][SettledOrReplaced]_vars
  /\ loadReq.issued ~> ~loadReq.issued
  /\ Len(exportReqs) = MaxExports ~> Len(exportReqs) < MaxExports

C22_Witness ==
  /\ ev.op = "downloadReportResume" /\ ev.download
  /\ ~loadReq.issued /\ Len(table) > 0

\* C23: the display filterAttendance leaves depends only on the query and
\* the cells of the rows, not on the display left by earlier queries: it is
\* the display the query gives on rows that are all shown, a hidden row
\* that matches is shown again, and repeating a query changes nothing.
C23_FilterIgnoresEarlierFiltering ==
  [][ev'.op = "filterAttendance" =>
       /\ Len(table') = Len(table)
       /\ \A i \in 1..Len(table) :
            /\ table'[i] = filterRow(Row(table[i].cells), ev'.input)
            /\ (table[i].display = "none"
                  /\ includes(rowName(table[i]), toLowerCase(ev'.input)))
                 => table'[i].display = ""
       /\ (ev.op = "filterAttendance" /\ ev.input = ev'.input)
            => table' = table]_vars

C23_Witness ==
  /\ ev.op = "filterAttendance" /\ ev.input = <<"a">> /\ Len(table) = 2
  /\ table[1].display = "" /\ table[2].display = ""
  /\ table[1].cells[2] # table[2].cells[2]

====
